---------------------------- MODULE Spec2Model ----------------------------
(***************************************************************************)
(* ulid-rs: the 16-byte Ulid value, its constructor (timestamp + entropy   *)
(* source), the Crockford base32 codec (marshal / unmarshal), the          *)
(* timestamp accessor, the byte conversions and the derived ordering.      *)
(*                                                                         *)
(* Byte arrays and texts are functions over 0..n-1, as the Rust arrays and *)
(* slices are indexed.  A u64 is kept as its 8 bytes, index 0 the most     *)
(* significant, because a 48-bit or 64-bit quantity does not fit the       *)
(* integers of the model checker; shifts and ors are computed on the       *)
(* bytes.  Texts are sequences of character codes (AsRef<[u8]>).           *)
(***************************************************************************)
EXTENDS Integers, FiniteSets, Sequences

VARIABLES
    pc,         \* where the caller stands in its run
    timestamp,  \* the u64 last handed to Ulid::new / encode_time
    rng,        \* the entropy source: a counter closure and the calls it served
    ulid,       \* self.0 of the Ulid the caller holds
    origin,     \* how that Ulid was created, and self.0 as it was then
    s,          \* the text handed to unmarshal
    res,        \* the Result<Ulid, UlidError> unmarshal returned
    text,       \* the [u8; 26] marshal returned
    ret,        \* the last value returned by an accessor or conversion
    peer,       \* a second Ulid, its timestamp argument and its text
    ord         \* the outcome of comparing ulid with peer

vars == <<pc, timestamp, rng, ulid, origin, s, res, text, ret, peer, ord>>

---------------------------------------------------------------------------
(* u8 and u64 arithmetic *)

Byte == 0..255

Pow2(n) == 2 ^ n

\* x & y on u8
RECURSIVE BitAnd(_, _)
BitAnd(x, y) ==
    IF x = 0 \/ y = 0 THEN 0
    ELSE (x % 2) * (y % 2) + 2 * BitAnd(x \div 2, y \div 2)

\* x | y on u8
RECURSIVE BitOr(_, _)
BitOr(x, y) ==
    IF x = 0 THEN y
    ELSE IF y = 0 THEN x
    ELSE (IF x % 2 = 1 \/ y % 2 = 1 THEN 1 ELSE 0) + 2 * BitOr(x \div 2, y \div 2)

\* x << n computed in a wider integer: no bit is dropped
ShlWide(x, n) == x * Pow2(n)

\* x << n on u8: the bits shifted past bit 7 are dropped
Shl(x, n) == (x * Pow2(n)) % 256

\* x >> n on u8
Shr(x, n) == x \div Pow2(n)

\* the empty array / slice
Empty == [i \in {} |-> 0]

\* slice.len()
len(a) == Cardinality(DOMAIN a)

\* an array literal, indexed from 0
Arr(seq) == [i \in 0..(Len(seq) - 1) |-> seq[i + 1]]

\* byte j of a u64 (0 the most significant), 0 outside it
Limb(t, j) == IF j \in 0..7 THEN t[j] ELSE 0

\* t >> n on u64
U64Shr(t, n) ==
    LET q == n \div 8
        r == n % 8
    IN  [i \in 0..7 |->
            ((Limb(t, i - q - 1) * Pow2(8 - r)) % 256) + (Limb(t, i - q) \div Pow2(r))]

\* t << n on u64
U64Shl(t, n) ==
    LET q == n \div 8
        r == n % 8
    IN  [i \in 0..7 |->
            ((Limb(t, i + q) * Pow2(r)) % 256) + (Limb(t, i + q + 1) \div Pow2(8 - r))]

\* a | b on u64
U64Or(a, b) == [i \in 0..7 |-> BitOr(a[i], b[i])]

\* t as u8
AsU8(t) == t[7]

\* b as u64
AsU64(b) == [i \in 0..7 |-> IF i = 7 THEN b ELSE 0]

\* 0u64
U64Zero == [i \in 0..7 |-> 0]

---------------------------------------------------------------------------
(* the symbol tables *)

\* b"0123456789ABCDEFGHIJKLMNOPQRSTUV": the base32hex alphabet in its place
EncodingBase32Hex == <<
    48, 49, 50, 51, 52, 53, 54, 55, 56, 57,
    65, 66, 67, 68, 69, 70, 71, 72, 73, 74, 75, 76,
    77, 78, 79, 80, 81, 82, 83, 84, 85, 86 >>

\* b"0123456789ABCDEFGHJKMNPQRSTVWXYZ"; a tuple counts from 1, so entry k of the
\* table is ENCODING[k + 1]
ENCODING == <<
    48, 49, 50, 51, 52, 53, 54, 55, 56, 57,
    65, 66, 67, 68, 69, 70, 71, 72, 74, 75, 77, 78,
    80, 81, 82, 83, 84, 86, 87, 88, 89, 90 >>

\* entry x of the table is DECODING[x + 1]; 255 is 0xFF
DECODING == <<
    255, 255, 255, 255, 255, 255, 255, 255, 255, 255, 255, 255, 255, 255, 255, 255,
    255, 255, 255, 255, 255, 255, 255, 255, 255, 255, 255, 255, 255, 255, 255, 255,
    255, 255, 255, 255, 255, 255, 255, 255, 255, 255, 255, 255, 255, 255, 255, 255,
    \* 0     1     2     3     4     5     6     7
    0, 1, 2, 3, 4, 5, 6, 7,
    \* 8     9
    8, 9, 255, 255, 255, 255, 255, 255,
    \*    10(A) 11(B) 12(C) 13(D) 14(E) 15(F) 16(G)
    255, 10, 11, 12, 13, 14, 15, 16,
    \* 17(H)     18(J) 19(K)       20(M) 21(N)
    17, 255, 18, 19, 255, 20, 21, 255,
    \* 22(P) 23(Q) 24(R) 25(S) 26(T)       27(V) 28(W)
    22, 23, 24, 25, 26, 255, 27, 28,
    \* 29(X) 30(Y) 31(Z)
    29, 30, 31, 255, 255, 255, 255, 255, 255, 255, 255, 255, 255, 255, 255, 255,
    255, 255, 255, 255, 255, 255, 255, 255, 255, 255, 255, 255, 255, 255, 255, 255,
    255, 255, 255, 255, 255, 255, 255, 255, 255, 255, 255, 255, 255, 255, 255, 255,
    255, 255, 255, 255, 255, 255, 255, 255, 255, 255, 255, 255, 255, 255, 255, 255,
    255, 255, 255, 255, 255, 255, 255, 255, 255, 255, 255, 255, 255, 255, 255, 255,
    255, 255, 255, 255, 255, 255, 255, 255, 255, 255, 255, 255, 255, 255, 255, 255,
    255, 255, 255, 255, 255, 255, 255, 255, 255, 255, 255, 255, 255, 255, 255, 255,
    255, 255, 255, 255, 255, 255, 255, 255, 255, 255, 255, 255, 255, 255, 255, 255,
    255, 255, 255, 255, 255, 255, 255, 255, 255, 255, 255, 255, 255, 255, 255, 255,
    255, 255, 255, 255, 255, 255, 255, 255, 255, 255, 255, 255, 255, 255, 255, 255,
    255, 255, 255, 255, 255, 255, 255, 255 >>

---------------------------------------------------------------------------
(* Result<Ulid, UlidError> *)

Ok(v) == [ok |-> TRUE, val |-> v, err |-> "none"]

Err(e) == [ok |-> FALSE, val |-> Empty, err |-> e]

InvalidLength == "InvalidLength"

InvalidCharacter == "InvalidCharacter"

---------------------------------------------------------------------------
(* the entropy source: a closure that returns cur and then advances it by  *)
(* step, as a counter kept in a Cell does (step 0: the constant closure    *)
(* of the tests)                                                           *)

RngOut(r) == r.cur

RngNext(r) == [r EXCEPT !.cur = (r.cur + r.step) % 256, !.calls = r.calls + 1]

---------------------------------------------------------------------------
(* impl Ulid *)

\* encode_time writing the six bytes lowest first
encode_time_le(self, t) ==
    [i \in 0..15 |->
        CASE i = 5 -> AsU8(U64Shr(t, 40))
          [] i = 4 -> AsU8(U64Shr(t, 32))
          [] i = 3 -> AsU8(U64Shr(t, 24))
          [] i = 2 -> AsU8(U64Shr(t, 16))
          [] i = 1 -> AsU8(U64Shr(t, 8))
          [] i = 0 -> AsU8(t)
          [] OTHER -> self[i]]

\* encode_time building its six bytes on a zeroed array
encode_time_fresh(self, t) ==
    [i \in 0..15 |->
        CASE i = 0 -> AsU8(U64Shr(t, 40))
          [] i = 1 -> AsU8(U64Shr(t, 32))
          [] i = 2 -> AsU8(U64Shr(t, 24))
          [] i = 3 -> AsU8(U64Shr(t, 16))
          [] i = 4 -> AsU8(U64Shr(t, 8))
          [] i = 5 -> AsU8(t)
          [] OTHER -> 0]

encode_time(self, t) ==
    [i \in 0..15 |->
        CASE i = 0 -> AsU8(U64Shr(t, 40))
          [] i = 1 -> AsU8(U64Shr(t, 32))
          [] i = 2 -> AsU8(U64Shr(t, 24))
          [] i = 3 -> AsU8(U64Shr(t, 16))
          [] i = 4 -> AsU8(U64Shr(t, 8))
          [] i = 5 -> AsU8(t)
          [] OTHER -> self[i]]

\* encode_entropy calling the source once and copying the byte ten times
encode_entropy_once(self, r) ==
    [self |-> [i \in 0..15 |-> IF i >= 6 THEN RngOut(r) ELSE self[i]],
     rng |-> RngNext(r)]

\* the ten calls, in order: r0 is the source as handed in, rk the source after
\* k calls; the result of call k + 1 goes to byte 6 + k.  Returns self and the
\* source as the calls leave it.
encode_entropy(self, r) ==
    LET r0 == r
        r1 == RngNext(r0)
        r2 == RngNext(r1)
        r3 == RngNext(r2)
        r4 == RngNext(r3)
        r5 == RngNext(r4)
        r6 == RngNext(r5)
        r7 == RngNext(r6)
        r8 == RngNext(r7)
        r9 == RngNext(r8)
        r10 == RngNext(r9)
    IN  [self |-> [i \in 0..15 |->
                    CASE i = 6  -> RngOut(r0)
                      [] i = 7  -> RngOut(r1)
                      [] i = 8  -> RngOut(r2)
                      [] i = 9  -> RngOut(r3)
                      [] i = 10 -> RngOut(r4)
                      [] i = 11 -> RngOut(r5)
                      [] i = 12 -> RngOut(r6)
                      [] i = 13 -> RngOut(r7)
                      [] i = 14 -> RngOut(r8)
                      [] i = 15 -> RngOut(r9)
                      [] OTHER  -> self[i]],
         rng |-> r10]

\* Ulid::new: ans = Ulid([0; 16]); encode_time; encode_entropy
new(t, r) == encode_entropy(encode_time([i \in 0..15 |-> 0], t), r)

\* ans[k] = ENCODING[...], k = 0..25
marshal(val) ==
    [k \in 0..25 |->
        \* timestamp
        CASE k = 0 -> ENCODING[Shr(BitAnd(val[0], 224), 5) + 1]
          [] k = 1 -> ENCODING[BitAnd(val[0], 31) + 1]
          [] k = 2 -> ENCODING[Shr(BitAnd(val[1], 248), 3) + 1]
          [] k = 3 -> ENCODING[BitOr(Shl(BitAnd(val[1], 7), 2), Shr(BitAnd(val[2], 192), 6)) + 1]
          [] k = 4 -> ENCODING[Shr(BitAnd(val[2], 62), 1) + 1]
          [] k = 5 -> ENCODING[BitOr(Shl(BitAnd(val[2], 1), 4), Shr(BitAnd(val[3], 240), 4)) + 1]
          [] k = 6 -> ENCODING[BitOr(Shl(BitAnd(val[3], 15), 1), Shr(BitAnd(val[4], 128), 7)) + 1]
          [] k = 7 -> ENCODING[Shr(BitAnd(val[4], 124), 2) + 1]
          [] k = 8 -> ENCODING[BitOr(Shl(BitAnd(val[4], 3), 3), Shr(BitAnd(val[5], 224), 5)) + 1]
          [] k = 9 -> ENCODING[BitAnd(val[5], 31) + 1]
        \* entropy
          [] k = 10 -> ENCODING[Shr(BitAnd(val[6], 248), 3) + 1]
          [] k = 11 -> ENCODING[BitOr(Shl(BitAnd(val[6], 7), 2), Shr(BitAnd(val[7], 192), 6)) + 1]
          [] k = 12 -> ENCODING[Shr(BitAnd(val[7], 62), 1) + 1]
          [] k = 13 -> ENCODING[BitOr(Shl(BitAnd(val[7], 1), 4), Shr(BitAnd(val[8], 240), 4)) + 1]
          [] k = 14 -> ENCODING[BitOr(Shl(BitAnd(val[8], 15), 1), Shr(BitAnd(val[9], 128), 7)) + 1]
          [] k = 15 -> ENCODING[Shr(BitAnd(val[9], 124), 2) + 1]
          [] k = 16 -> ENCODING[BitOr(Shl(BitAnd(val[9], 3), 3), Shr(BitAnd(val[10], 224), 5)) + 1]
          [] k = 17 -> ENCODING[BitAnd(val[10], 31) + 1]
          [] k = 18 -> ENCODING[Shr(BitAnd(val[11], 248), 3) + 1]
          [] k = 19 -> ENCODING[BitOr(Shl(BitAnd(val[11], 7), 2), Shr(BitAnd(val[12], 192), 6)) + 1]
          [] k = 20 -> ENCODING[Shr(BitAnd(val[12], 62), 1) + 1]
          [] k = 21 -> ENCODING[BitOr(Shl(BitAnd(val[12], 1), 4), Shr(BitAnd(val[13], 240), 4)) + 1]
          [] k = 22 -> ENCODING[BitOr(Shl(BitAnd(val[13], 15), 1), Shr(BitAnd(val[14], 128), 7)) + 1]
          [] k = 23 -> ENCODING[Shr(BitAnd(val[14], 124), 2) + 1]
          [] k = 24 -> ENCODING[BitOr(Shl(BitAnd(val[14], 3), 3), Shr(BitAnd(val[15], 224), 5)) + 1]
          [] k = 25 -> ENCODING[BitAnd(val[15], 31) + 1]]

\* unmarshal_word reading O as 0 and I, L as 1, as Crockford's decoding does
unmarshal_word_crockford(x) ==
    IF x = 79 THEN [ok |-> TRUE, val |-> 0, err |-> "none"]
    ELSE IF x = 73 \/ x = 76 THEN [ok |-> TRUE, val |-> 1, err |-> "none"]
    ELSE IF DECODING[x + 1] = 255 THEN Err(InvalidCharacter)
    ELSE [ok |-> TRUE, val |-> DECODING[x + 1], err |-> "none"]

\* unmarshal_word folding a lowercase letter to uppercase before the lookup
unmarshal_word_fold(x) ==
    LET u == IF x \in 97..122 THEN x - 32 ELSE x
    IN  IF DECODING[u + 1] = 255 THEN Err(InvalidCharacter)
        ELSE [ok |-> TRUE, val |-> DECODING[u + 1], err |-> "none"]

unmarshal_word(x) ==
    IF DECODING[x + 1] = 255
    THEN Err(InvalidCharacter)
    ELSE [ok |-> TRUE, val |-> DECODING[x + 1], err |-> "none"]

\* the positions of s that lines 163-192 hand to unmarshal_word; the first
\* Err among them is returned by `?`
WordsRead ==
    {0, 1} \cup {2, 3} \cup {3, 4, 5} \cup {5, 6} \cup {6, 7, 8} \cup {8, 9}
    \cup {10, 11} \cup {11, 12, 13} \cup {13, 14} \cup {14, 15, 16} \cup {16, 17}
    \cup {18, 19} \cup {19, 20, 21} \cup {21, 22} \cup {22, 23, 24} \cup {24, 25}

\* the 16 bytes assembled from the decoded words w
unmarshal_val(w) ==
    [k \in 0..15 |->
        \* timestamp
        CASE k = 0 -> BitOr(Shl(w[0], 5), w[1])
          [] k = 1 -> BitOr(Shl(w[2], 3), Shr(w[3], 2))
          [] k = 2 -> BitOr(BitOr(Shl(w[3], 6), Shl(w[4], 1)), Shr(w[5], 4))
          [] k = 3 -> BitOr(Shl(w[5], 4), Shr(w[6], 1))
          [] k = 4 -> BitOr(BitOr(Shl(w[6], 7), Shl(w[7], 2)), Shr(w[8], 3))
          [] k = 5 -> BitOr(Shl(w[8], 5), w[9])
        \* entropy
          [] k = 6 -> BitOr(Shl(w[10], 3), Shr(w[11], 2))
          [] k = 7 -> BitOr(BitOr(Shl(w[11], 6), Shl(w[12], 1)), Shr(w[13], 4))
          [] k = 8 -> BitOr(Shl(w[13], 4), Shr(w[14], 1))
          [] k = 9 -> BitOr(BitOr(Shl(w[14], 7), Shl(w[15], 2)), Shr(w[16], 3))
          [] k = 10 -> BitOr(Shl(w[16], 5), w[17])
          [] k = 11 -> BitOr(Shl(w[18], 3), Shr(w[19], 2))
          [] k = 12 -> BitOr(BitOr(Shl(w[19], 6), Shl(w[20], 1)), Shr(w[21], 4))
          [] k = 13 -> BitOr(Shl(w[21], 4), Shr(w[22], 1))
          [] k = 14 -> BitOr(BitOr(Shl(w[22], 7), Shl(w[23], 2)), Shr(w[24], 3))
          [] k = 15 -> BitOr(Shl(w[24], 5), w[25])]

\* unmarshal refusing only a text that is too short
unmarshal_min_len(str) ==
    IF len(str) < 26
    THEN Err(InvalidLength)
    ELSE IF \E i \in WordsRead : ~unmarshal_word(str[i]).ok
    THEN Err(InvalidCharacter)
    ELSE Ok(unmarshal_val([i \in 0..25 |-> unmarshal_word(str[i]).val]))

\* unmarshal refusing a first symbol above 7
unmarshal_strict(str) ==
    IF len(str) # 26
    THEN Err(InvalidLength)
    ELSE IF \E i \in WordsRead : ~unmarshal_word(str[i]).ok
    THEN Err(InvalidCharacter)
    ELSE IF unmarshal_word(str[0]).val > 7
    THEN Err(InvalidCharacter)
    ELSE Ok(unmarshal_val([i \in 0..25 |-> unmarshal_word(str[i]).val]))

unmarshal(str) ==
    IF len(str) # 26
    THEN Err(InvalidLength)
    ELSE IF \E i \in WordsRead : ~unmarshal_word(str[i]).ok
    THEN Err(InvalidCharacter)
    ELSE Ok(unmarshal_val([i \in 0..25 |-> unmarshal_word(str[i]).val]))

\* timestamp stopping one byte early
timestamp_of_short(self) ==
    LET a0 == U64Zero
        a1 == U64Or(U64Shl(a0, 8), AsU64(self[0]))
        a2 == U64Or(U64Shl(a1, 8), AsU64(self[1]))
        a3 == U64Or(U64Shl(a2, 8), AsU64(self[2]))
        a4 == U64Or(U64Shl(a3, 8), AsU64(self[3]))
    IN  U64Or(U64Shl(a4, 8), AsU64(self[4]))

\* fn timestamp(&self) -> u64
timestamp_of(self) ==
    LET a0 == U64Zero
        a1 == U64Or(U64Shl(a0, 8), AsU64(self[0]))
        a2 == U64Or(U64Shl(a1, 8), AsU64(self[1]))
        a3 == U64Or(U64Shl(a2, 8), AsU64(self[2]))
        a4 == U64Or(U64Shl(a3, 8), AsU64(self[3]))
        a5 == U64Or(U64Shl(a4, 8), AsU64(self[4]))
    IN  U64Or(U64Shl(a5, 8), AsU64(self[5]))

\* #[derive(PartialOrd)] on Ulid([u8; 16]): a < b, element by element
lt(a, b) ==
    \E i \in DOMAIN a \cap DOMAIN b :
        /\ a[i] < b[i]
        /\ \A j \in 0..(i - 1) : a[j] = b[j]

---------------------------------------------------------------------------
(* the inputs the callers draw from *)

\* how many background bytes, probe bytes and counter steps are tried, and
\* the longest text handed to unmarshal
NumFills == 2

NumProbes == 3

MaxStep == 1

MaxTextLen == 27

Samples == <<0, 255, 1, 128, 85, 170, 127, 254>>

Fills == {Samples[k] : k \in 1..NumFills}

Probes == {Samples[k] : k \in 1..NumProbes}

\* 16-byte arrays: any byte at one position of a uniform background
ByteArrays ==
    {[i \in 0..15 |-> IF i = p THEN b ELSE f] : f \in Fills, p \in 0..15, b \in Byte}

\* u64 timestamps: the two bytes above bit 47 both h (0: the value fits 48
\* bits), the other six 0 but for one probe byte
Timestamps ==
    {[i \in 0..7 |-> IF i < 2 THEN h ELSE IF i = p THEN b ELSE 0] :
        h \in Fills, p \in 2..7, b \in Probes}

\* the timestamps handed to encode_time on a Ulid that exists: the lowest byte set
LateTimestamps == {t \in Timestamps : t[7] # 0}

\* entropy sources not yet called: counters (step 0: the constant closures)
Sources == {[cur |-> c, step |-> d, calls |-> 0] : c \in Fills, d \in 0..MaxStep}

ConstSources == {[cur |-> c, step |-> 0, calls |-> 0] : c \in Fills}

TextFills == {ENCODING[((k * 31) % 32) + 1] : k \in 0..(NumFills - 1)}

\* a text of n bytes, all f but for c at position p (none when p = n)
TextOf(n, f, p, c) == [i \in 0..(n - 1) |-> IF i = p THEN c ELSE f]

\* texts of 26 bytes with a fill or probe byte at the first or the last
\* position, or at none
SeedTexts ==
    {TextOf(26, f, p, c) : f \in TextFills, p \in {0, 25, 26}, c \in TextFills \cup Probes}

\* texts of 26 bytes with any byte at one position, and texts of every length
\* up to MaxTextLen with a probe byte at one position or none
Texts ==
    {TextOf(26, f, p, c) : f \in TextFills, p \in 0..25, c \in Byte}
    \cup UNION {{TextOf(n, f, p, c) : f \in TextFills, p \in 0..n, c \in Probes} :
                    n \in 0..MaxTextLen}

---------------------------------------------------------------------------
(* the caller's run *)

NoResult == [ok |-> FALSE, val |-> Empty, err |-> "unset"]

Returned(op, v) == [op |-> op, val |-> v]

NoPeer == [set |-> FALSE, timestamp |-> U64Zero, ulid |-> Empty, text |-> Empty]

NoOrd == [set |-> FALSE, lt |-> FALSE, text_lt |-> FALSE]

\* nothing made yet; the caller owns the entropy source r
InitWith(r) ==
    /\ pc = "start"
    /\ timestamp = U64Zero
    /\ rng = r
    /\ ulid = Empty
    /\ origin = [by |-> "none", bytes |-> Empty]
    /\ s = Empty
    /\ res = NoResult
    /\ text = Empty
    /\ ret = Returned("none", Empty)
    /\ peer = NoPeer
    /\ ord = NoOrd

Init == \E r \in Sources : InitWith(r)

\* a caller that never draws entropy: its source is the closure || 0
InitCodec == InitWith([cur |-> 0, step |-> 0, calls |-> 0])

\* let u = Ulid::new(t, rng)
New(t) ==
    /\ ulid' = new(t, rng).self
    /\ rng' = new(t, rng).rng
    /\ origin' = [by |-> "new", bytes |-> ulid']
    /\ timestamp' = t
    /\ ret' = Returned("new", Empty)
    /\ pc' = "live"
    /\ UNCHANGED <<s, res, text, peer, ord>>

\* let u = Ulid::from(bytes)
From(bytes) ==
    /\ ulid' = bytes
    /\ origin' = [by |-> "from", bytes |-> ulid']
    /\ ret' = Returned("from", Empty)
    /\ pc' = "live"
    /\ UNCHANGED <<timestamp, rng, s, res, text, peer, ord>>

\* let u = Ulid::unmarshal(str)?  (Ulid::try_from(str) is the same call)
Unmarshal(str) ==
    /\ s' = str
    /\ res' = unmarshal(str)
    /\ ret' = Returned("unmarshal", Empty)
    /\ IF res'.ok
       THEN ulid' = res'.val /\ origin' = [by |-> "unmarshal", bytes |-> res'.val] /\ pc' = "live"
       ELSE UNCHANGED <<ulid, origin>> /\ pc' = "failed"
    /\ UNCHANGED <<timestamp, rng, text, peer, ord>>

\* u.marshal()
Marshal ==
    /\ pc \in {"live", "mutated"}
    /\ text' = marshal(ulid)
    /\ ret' = Returned("marshal", text')
    /\ UNCHANGED <<pc, timestamp, rng, ulid, origin, s, res, peer, ord>>

\* Ulid::unmarshal(u.marshal())
UnmarshalText ==
    /\ pc \in {"live", "mutated"}
    /\ ret.op = "marshal"
    /\ s' = text
    /\ res' = unmarshal(text)
    /\ ret' = Returned("unmarshal_text", Empty)
    /\ UNCHANGED <<pc, timestamp, rng, ulid, origin, text, peer, ord>>

\* u.to_string(), u.try_into(): String::from_utf8(self.marshal().to_vec())
ToString ==
    /\ pc \in {"live", "mutated"}
    /\ ret' = Returned("to_string", marshal(ulid))
    /\ UNCHANGED <<pc, timestamp, rng, ulid, origin, s, res, text, peer, ord>>

\* u.timestamp()
Timestamp ==
    /\ pc \in {"live", "mutated"}
    /\ ret' = Returned("timestamp", timestamp_of(ulid))
    /\ UNCHANGED <<pc, timestamp, rng, ulid, origin, s, res, text, peer, ord>>

\* u.into(): [u8; 16], &[u8], Vec<u8>
Into ==
    /\ pc \in {"live", "mutated"}
    /\ ret' = Returned("into", ulid)
    /\ UNCHANGED <<pc, timestamp, rng, ulid, origin, s, res, text, peer, ord>>

\* u.encode_time(t)
EncodeTime(t) ==
    /\ ulid' = encode_time(ulid, t)
    /\ timestamp' = t
    /\ ret' = Returned("encode_time", Empty)
    /\ pc' = "mutated"
    /\ UNCHANGED <<rng, origin, s, res, text, peer, ord>>

\* u.encode_entropy(rng), with the closure Ulid::new was given
EncodeEntropy ==
    /\ pc = "live"
    /\ ulid' = encode_entropy(ulid, rng).self
    /\ rng' = encode_entropy(ulid, rng).rng
    /\ ret' = Returned("encode_entropy", Empty)
    /\ pc' = "mutated"
    /\ UNCHANGED <<timestamp, origin, s, res, text, peer, ord>>

\* let v = Ulid::new(t, r): the Ulid that u is compared with
NewPeer(t, r) ==
    /\ peer' = [set |-> TRUE, timestamp |-> t, ulid |-> new(t, r).self, text |-> Empty]
    /\ UNCHANGED <<pc, timestamp, rng, ulid, origin, s, res, text, ret, ord>>

\* u < v, and u.marshal() < v.marshal()
Compare ==
    /\ pc = "live"
    /\ peer.set
    /\ text' = marshal(ulid)
    /\ peer' = [peer EXCEPT !.text = marshal(peer.ulid)]
    /\ ord' = [set |-> TRUE, lt |-> lt(ulid, peer.ulid), text_lt |-> lt(text', peer'.text)]
    /\ ret' = Returned("lt", Empty)
    /\ pc' = "compared"
    /\ UNCHANGED <<timestamp, rng, ulid, origin, s, res>>

\* a Ulid made by the constructor or decoded from a text, then read, converted
\* and re-encoded
Next ==
    \/ pc = "start" /\ \E t \in Timestamps : New(t)
    \/ pc = "start" /\ \E str \in SeedTexts : Unmarshal(str)
    \/ Marshal
    \/ ToString
    \/ Timestamp
    \/ Into
    \/ pc = "live" /\ \E t \in LateTimestamps : EncodeTime(t)
    \/ EncodeEntropy

Spec == Init /\ [][Next]_vars

\* 16 bytes turned into a Ulid, encoded and decoded again
NextCodec ==
    \/ pc = "start" /\ \E bytes \in ByteArrays : From(bytes)
    \/ Marshal
    \/ UnmarshalText

SpecCodec == InitCodec /\ [][NextCodec]_vars

\* a text decoded, and the Ulid it gave encoded again
NextText ==
    \/ pc = "start" /\ \E str \in Texts : Unmarshal(str)
    \/ Marshal

SpecText == InitCodec /\ [][NextText]_vars

\* two Ulids made by the constructor and compared
NextOrder ==
    \/ pc = "start" /\ \E t \in Timestamps : New(t)
    \/ pc = "live" /\ ~peer.set /\ \E t \in Timestamps, r \in ConstSources : NewPeer(t, r)
    \/ Compare

SpecOrder == Init /\ [][NextOrder]_vars

---------------------------------------------------------------------------
(* what the claims are stated with *)

\* the alphabet 0123456789ABCDEFGHJKMNPQRSTVWXYZ: the digits, and the capital
\* letters but I, L, O, U
AlphabetSet == (48..57) \cup ((65..90) \ {73, 76, 79, 85})

\* the value of an alphabet character: its rank in the alphabet
ValueOf(c) ==
    IF c <= 57 THEN c - 48
    ELSE c - 55 - (IF c > 73 THEN 1 ELSE 0) - (IF c > 76 THEN 1 ELSE 0)
               - (IF c > 79 THEN 1 ELSE 0) - (IF c > 85 THEN 1 ELSE 0)

\* bit j (0 the most significant) of the big-endian integer in the bytes of
\* val from byte `first` on
BitAt(val, first, j) == (val[first + (j \div 8)] \div Pow2(7 - (j % 8))) % 2

\* that integer with `pad` zero bits put on top
PaddedBit(val, first, pad, q) == IF q < pad THEN 0 ELSE BitAt(val, first, q - pad)

\* its k-th chunk of 5 bits, from the most significant
Chunk(val, first, pad, k) ==
    16 * PaddedBit(val, first, pad, 5 * k)
    + 8 * PaddedBit(val, first, pad, 5 * k + 1)
    + 4 * PaddedBit(val, first, pad, 5 * k + 2)
    + 2 * PaddedBit(val, first, pad, 5 * k + 3)
    + PaddedBit(val, first, pad, 5 * k + 4)

\* symbol k of the reference splitting: the 48 bits of bytes 0-5 in ten chunks,
\* the 80 bits of bytes 6-15 in sixteen
RefSymbol(val, k) == IF k < 10 THEN Chunk(val, 0, 2, k) ELSE Chunk(val, 6, 0, k - 10)

\* t mod 2^48
Low48(t) == [i \in 0..7 |-> IF i < 2 THEN 0 ELSE t[i]]

Fits48(t) == t[0] = 0 /\ t[1] = 0

\* a < b on u64
U64Lt(a, b) == \E i \in 0..7 : a[i] < b[i] /\ \A j \in 0..(i - 1) : a[j] = b[j]

\* the big-endian integer of bytes 0-5, zero-extended to 64 bits
TimeBytes(val) == [i \in 0..7 |-> IF i < 2 THEN 0 ELSE val[i - 2]]

Upper(c) == IF c \in 97..122 THEN c - 32 ELSE c

InAlphabet(str) == \A i \in DOMAIN str : str[i] \in AlphabetSet

IsNewStep == pc = "start" /\ pc' = "live" /\ ret'.op = "new"

IsEntropyStep == pc = "live" /\ pc' = "mutated" /\ ret'.op = "encode_entropy"

IsTimeStep == pc = "live" /\ pc' = "mutated" /\ ret'.op = "encode_time"

---------------------------------------------------------------------------
(* the claims *)

\* C1: for every 16-byte value v, also with the top bits of byte 0 set,
\* unmarshal(v.marshal()) is Ok and the decoded value equals v byte for byte.
C1_RoundTripBinary ==
    ret.op = "unmarshal_text" =>
        /\ res.ok
        /\ DOMAIN res.val = 0..15
        /\ \A i \in 0..15 : res.val[i] = ulid[i]

C1_Witness ==
    /\ ret.op = "unmarshal_text"
    /\ origin.by = "from"
    /\ ulid[0] >= 224
    /\ res.ok

\* C2: marshal gives exactly 26 characters of the alphabet; symbols 0-9 are the
\* ten 5-bit chunks of the big-endian 48-bit integer in bytes 0-5 (zero-padded
\* on top, so symbol 0 is 0-7), symbols 10-25 the sixteen chunks of the 80-bit
\* integer in bytes 6-15, each from the most significant.
C2_MarshalBitSplit ==
    ret.op = "marshal" =>
        /\ DOMAIN text = 0..25
        /\ \A k \in 0..25 :
            /\ text[k] \in AlphabetSet
            /\ ValueOf(text[k]) = RefSymbol(ulid, k)
        /\ ValueOf(text[0]) \in 0..7

C2_Witness ==
    /\ ret.op = "marshal"
    /\ origin.by = "from"
    /\ ulid[0] = 255
    /\ ulid[9] = 255
    /\ ValueOf(text[0]) = 7

\* C3: for timestamps t1 < t2 that both fit 48 bits and any two entropy
\* sources, new(t1, r1) < new(t2, r2) byte by byte, and the same strict order
\* holds between their marshal outputs compared byte-wise.
C3_Sortability ==
    (ord.set /\ Fits48(timestamp) /\ Fits48(peer.timestamp)) =>
        /\ U64Lt(timestamp, peer.timestamp) => (ord.lt /\ ord.text_lt)
        /\ U64Lt(peer.timestamp, timestamp) => (~ord.lt /\ ~ord.text_lt)

C3_Witness ==
    /\ ord.set
    /\ Fits48(timestamp) /\ Fits48(peer.timestamp)
    /\ U64Lt(timestamp, peer.timestamp)
    /\ ulid[6] = 255 /\ peer.ulid[6] = 0
    /\ ord.lt /\ ord.text_lt

\* C4: for every u64 t, also t >= 2^48, and every entropy source,
\* new(t, rng).timestamp() is t mod 2^48: the big-endian integer of bytes 0-5
\* zero-extended, whatever bytes 6-15 hold.
C4_TimestampFidelity ==
    (ret.op = "timestamp" /\ origin.by = "new") =>
        /\ ret.val = Low48(timestamp)
        /\ ret.val = TimeBytes(ulid)

C4_Witness ==
    /\ ret.op = "timestamp"
    /\ origin.by = "new"
    /\ ~Fits48(timestamp)
    /\ ret.val # timestamp
    /\ ret.val[7] # 0
    /\ ulid[15] # 0

\* C5: for a 26-byte input unmarshal returns InvalidCharacter exactly when a
\* byte at some position 0-25 is outside the alphabet; an input of alphabet
\* characters decodes, and an error returns no Ulid.
C5_CharacterValidation ==
    (ret.op = "unmarshal" /\ len(s) = 26) =>
        /\ (~res.ok /\ res.err = InvalidCharacter) <=> ~InAlphabet(s)
        /\ InAlphabet(s) => (res.ok /\ DOMAIN res.val = 0..15 /\ ulid = res.val)
        /\ ~res.ok => (res.val = Empty /\ ulid = Empty /\ pc = "failed")

C5_Witness ==
    /\ ret.op = "unmarshal"
    /\ len(s) = 26
    /\ s[25] \notin AlphabetSet
    /\ \A i \in 0..24 : s[i] \in AlphabetSet
    /\ res.err = InvalidCharacter

\* C6: unmarshal of an input whose length is not 26 returns InvalidLength, also
\* when the input holds characters outside the alphabet; an input of 26 bytes
\* never does.
C6_LengthValidation ==
    ret.op = "unmarshal" =>
        ((len(s) # 26) <=> (~res.ok /\ res.err = InvalidLength))

C6_Witness ==
    /\ ret.op = "unmarshal"
    /\ len(s) = 27
    /\ ~InAlphabet(s)
    /\ res.err = InvalidLength

\* a step of the caller, as C7 reads it: only new and encode_entropy call the
\* source, ten times each
C7_Step ==
    /\ (IsNewStep \/ IsEntropyStep) =>
        /\ rng'.calls = rng.calls + 10
        /\ rng'.cur = (rng.cur + 10 * rng.step) % 256
        /\ \A k \in 0..9 : ulid'[6 + k] = (rng.cur + k * rng.step) % 256
    /\ IsNewStep =>
        /\ rng.calls = 0
        /\ \A i \in 0..5 : ulid'[i] = Low48(timestamp')[i + 2]
    /\ ~(IsNewStep \/ IsEntropyStep) => rng' = rng

\* C7: construction calls the entropy source exactly 10 times, one after the
\* other; the result of call i goes to byte 5 + i, so a counter source leaves
\* its ten successive outputs in bytes 6-15; bytes 0-5 hold the low 48 bits of
\* the timestamp, big-endian.
C7_TenCallsInOrder ==
    [][C7_Step]_vars

C7_Witness ==
    /\ ret.op = "new"
    /\ rng.calls = 10
    /\ rng.step = 1
    /\ ulid[6] = 255 /\ ulid[7] = 0 /\ ulid[15] = 8
    /\ ~Fits48(timestamp)

\* C8 as stated: the lowercase form of an alphabet-conformant 26-character
\* text decodes, to the value its uppercase form decodes to.
C8_LowercaseAccepted ==
    (ret.op = "unmarshal" /\ len(s) = 26 /\ InAlphabet([i \in 0..25 |-> Upper(s[i])])) =>
        /\ res.ok
        /\ res = unmarshal([i \in 0..25 |-> Upper(s[i])])

\* C8 as amended: decoding is case-sensitive; a 26-byte text holding a
\* lowercase letter is refused with InvalidCharacter.
C8_LowercaseRefused ==
    (ret.op = "unmarshal" /\ len(s) = 26 /\ \E i \in 0..25 : s[i] \in 97..122) =>
        (~res.ok /\ res.err = InvalidCharacter /\ pc = "failed")

C8_Witness ==
    /\ ret.op = "unmarshal"
    /\ len(s) = 26
    /\ s[3] = 122
    /\ InAlphabet([i \in 0..25 |-> Upper(s[i])])
    /\ res.err = InvalidCharacter

\* C9: every 26-character text s over the alphabet decodes, a first symbol of
\* value 8-31 included; marshal(unmarshal(s)) equals s at positions 1-25 and
\* holds at position 0 the character of the first symbol's value mod 8, so it
\* equals s exactly when s starts with one of '0'..'7'.
C9_RoundTripText ==
    /\ (ret.op = "unmarshal" /\ len(s) = 26 /\ InAlphabet(s)) => res.ok
    /\ (ret.op = "marshal" /\ origin.by = "unmarshal") =>
        /\ \A i \in 1..25 : text[i] = s[i]
        /\ text[0] \in AlphabetSet
        /\ ValueOf(text[0]) = ValueOf(s[0]) % 8
        /\ (text = s) <=> (s[0] \in 48..55)

C9_Witness ==
    /\ ret.op = "marshal"
    /\ origin.by = "unmarshal"
    /\ ValueOf(s[0]) = 31
    /\ text[0] = 55
    /\ text # s

C10_Step ==
    pc \in {"live", "mutated"} =>
        /\ ret'.op \in {"marshal", "to_string", "timestamp", "into"} => ulid' = ulid
        /\ IsTimeStep =>
            /\ \A i \in 6..15 : ulid'[i] = ulid[i]
            /\ \A i \in 0..5 : ulid'[i] = timestamp'[i + 2]
        /\ IsEntropyStep => \A i \in 0..5 : ulid'[i] = ulid[i]
        /\ origin' = origin

===========================================================================
